---- MODULE Spec2Model ----
(***************************************************************************)
(* pixely: a CPU-side RGBA framebuffer (src/src/framebuffer.rs) shown as a  *)
(* letterboxed textured quad on a wgpu surface (src/src/lib.rs).            *)
(*                                                                          *)
(* The wgpu objects are modelled by what the calls made on them leave       *)
(* behind: the texture holds its extent and the bytes last written to it,   *)
(* the surface holds the extent it was last configured with, the vertex     *)
(* buffer holds the vertices last written, and gpuLog lists the device,     *)
(* queue and surface calls made by the last Pixely call, in order.          *)
(***************************************************************************)
EXTENDS Integers, Sequences, FiniteSets, TLC

(***************************************************************************)
(* Bounds of the model.                                                     *)
(***************************************************************************)
\* the largest framebuffer width and height passed to new / resize_framebuffer
MaxFbDim == 2
\* the largest surface width and height passed to new / resize_surface
MaxSfDim == 2
\* widths and heights of the constructor-only specification SpecQuad
MaxQuadDim == 5

\* empty, one cell wide or high, and the largest
FbDims == {0, 1, MaxFbDim}
SfDims == {0, 1, MaxSfDim}

\* usize values near the top of the type are written as negative integers: n < 0
\* stands for 2^BITS + n (BITS the width of usize), so that usize::MAX is -1
USIZE_MAX == -1
\* coordinates passed to set_pixel: every column and row of the largest buffer, one
\* beyond it, and the largest usize
Coords == (0..MaxFbDim) \cup {USIZE_MAX}

(***************************************************************************)
(* f32 arithmetic (IEEE 754 binary32, round to nearest, ties to even), as   *)
(* used by get_quad_size.  A finite value is (-1)^s * m * 2^e with m odd    *)
(* (or m = 0, e = 0), so that equal values are equal records.  The exponent *)
(* range of binary32 is not modelled: the values of the model stay far      *)
(* inside it.                                                               *)
(***************************************************************************)
\* significand width of f32
F32_MANTISSA_DIGITS == 24

RECURSIVE Pow2Rec(_)
Pow2Rec(n) == IF n <= 0 THEN 1 ELSE 2 * Pow2Rec(n - 1)

\* the powers of two of the model's integers
Pow2Table == [n \in 0..30 |-> Pow2Rec(n)]
Pow2(n) == Pow2Table[n]

\* quotients of 26 bits lie in F32QuotientMin .. F32QuotientMax - 1
F32QuotientMin == Pow2(F32_MANTISSA_DIGITS + 1)
F32QuotientMax == Pow2(F32_MANTISSA_DIGITS + 2)

F32Zero == [k |-> "fin", s |-> 0, m |-> 0, e |-> 0]
F32NaN == [k |-> "nan", s |-> 0, m |-> 0, e |-> 0]
F32Inf(s) == [k |-> "inf", s |-> s, m |-> 0, e |-> 0]

\* the number of low zero bits of m > 0
TrailingZeros(m) ==
    CHOOSE z \in 0..30 : m % Pow2(z) = 0 /\ (m \div Pow2(z)) % 2 = 1

F32Shifted(s, m, e, z) == [k |-> "fin", s |-> s, m |-> m \div Pow2(z), e |-> e + z]

\* the record of (-1)^s * m * 2^e, m > 0
F32Fin(s, m, e) == F32Shifted(s, m, e, TrailingZeros(m))

\* q has 26 bits, 24 of the significand and two below it; sticky: a lower bit was
\* set.  Round to nearest, ties to even.
F32Nearest(s, q, sticky, e) ==
    IF q % 4 = 3 \/ (q % 4 = 2 /\ (sticky \/ (q \div 4) % 2 = 1))
    THEN F32Fin(s, (q \div 4) + 1, e + 2)
    ELSE F32Fin(s, q \div 4, e + 2)

\* drops low bits of q, remembering whether any was set, until q has 26 bits
RECURSIVE F32Shrink(_, _, _, _)
F32Shrink(s, q, sticky, e) ==
    IF q < F32QuotientMax THEN F32Nearest(s, q, sticky, e)
    ELSE F32Shrink(s, q \div 2, sticky \/ q % 2 = 1, e + 1)

\* long division, four bits at a time: further quotient bits of (q + r/d) * 2^e
\* until q has 26 bits or more
RECURSIVE F32Grow(_, _, _, _, _)
F32Grow(s, q, r, d, e) ==
    IF q >= F32QuotientMin THEN F32Shrink(s, q, r # 0, e)
    ELSE F32Grow(s, 16 * q + ((16 * r) \div d), (16 * r) % d, d, e - 4)

\* (-1)^s * (n/d) * 2^e rounded to the nearest f32, ties to even (n, d > 0)
F32Round(s, n, d, e) == F32Grow(s, n \div d, n % d, d, e)

\* `n as f32` for an unsigned integer n
AsF32(n) == IF n = 0 THEN F32Zero ELSE F32Round(0, n, 1, 0)

F32IsZero(a) == a.k = "fin" /\ a.m = 0
F32SignXor(a, b) == (a.s + b.s) % 2

\* a * b
F32Mul(a, b) ==
    IF a.k = "nan" \/ b.k = "nan" THEN F32NaN
    ELSE IF (a.k = "inf" /\ F32IsZero(b)) \/ (F32IsZero(a) /\ b.k = "inf") THEN F32NaN
    ELSE IF a.k = "inf" \/ b.k = "inf" THEN F32Inf(F32SignXor(a, b))
    ELSE IF F32IsZero(a) \/ F32IsZero(b) THEN [F32Zero EXCEPT !.s = F32SignXor(a, b)]
    ELSE F32Round(F32SignXor(a, b), a.m * b.m, 1, a.e + b.e)

\* a / b
F32Div(a, b) ==
    IF a.k = "nan" \/ b.k = "nan" THEN F32NaN
    ELSE IF (a.k = "inf" /\ b.k = "inf") \/ (F32IsZero(a) /\ F32IsZero(b)) THEN F32NaN
    ELSE IF a.k = "inf" \/ F32IsZero(b) THEN F32Inf(F32SignXor(a, b))
    ELSE IF b.k = "inf" \/ F32IsZero(a) THEN [F32Zero EXCEPT !.s = F32SignXor(a, b)]
    ELSE F32Round(F32SignXor(a, b), a.m, b.m, a.e - b.e)

\* -a
F32Neg(a) == IF a.k = "nan" THEN a ELSE [a EXCEPT !.s = 1 - a.s]

\* |a| <= |b| for finite a, b
F32MagLe(a, b) ==
    IF a.e >= b.e THEN a.m * Pow2(a.e - b.e) <= b.m
    ELSE a.m <= b.m * Pow2(b.e - a.e)

\* a <= b (false when either is NaN)
F32Le(a, b) ==
    /\ a.k # "nan"
    /\ b.k # "nan"
    /\ IF F32IsZero(a) /\ F32IsZero(b) THEN TRUE
       ELSE IF a.s # b.s THEN a.s = 1
       ELSE IF a.s = 0
            THEN IF a.k = "inf" THEN b.k = "inf"
                 ELSE b.k = "inf" \/ F32MagLe(a, b)
            ELSE IF b.k = "inf" THEN a.k = "inf"
                 ELSE a.k = "inf" \/ F32MagLe(b, a)

F32One == AsF32(1)


(***************************************************************************)
(* framebuffer.rs                                                           *)
(***************************************************************************)
Pixel(red, green, blue, alpha) ==
    [red |-> red, green |-> green, blue |-> blue, alpha |-> alpha]

black == Pixel(0, 0, 0, 255)

\* the colours callers write in the model: black and one with four distinct channels
Colors == {black, Pixel(1, 2, 3, 4)}

\* FrameBuffer::new filling with zeroed pixels instead of Pixel::black()
FrameBuffer_new_zeroed(width, height) ==
    [width |-> width, height |-> height,
     pixels |-> [i \in 1..(width * height) |-> Pixel(0, 0, 0, 0)]]

\* FrameBuffer::new
FrameBuffer_new(width, height) ==
    [width |-> width, height |-> height,
     pixels |-> [i \in 1..(width * height) |-> black]]

\* a * b on usize: the wrapped product and whether the exact product exceeds
\* usize::MAX (it does when one factor is near 2^BITS and the other is 2 or more)
usize_mul(a, b) ==
    [value |-> a * b,
     overflow |-> a # 0 /\ b # 0 /\ ((a < 0 /\ b # 1) \/ (b < 0 /\ a # 1))]

\* p + b on usize, p the result of an earlier operation: the wrapped sum and
\* whether that operation or this sum overflowed
usize_add(p, b) ==
    [value |-> p.value + b,
     overflow |-> \/ p.overflow
                  \/ (p.value < 0 /\ b < 0)
                  \/ (p.value < 0 /\ b >= 0 /\ p.value + b >= 0)
                  \/ (p.value >= 0 /\ b < 0 /\ p.value + b >= 0)]

\* coord_to_index with the roles of x and y exchanged
coord_to_index_column_major(fb, x, y) == usize_add(usize_mul(x, fb.height), y)

\* FrameBuffer::coord_to_index: the 0-based index y * width + x, wrapped, and
\* whether the arithmetic overflowed usize
coord_to_index(fb, x, y) == usize_add(usize_mul(y, fb.width), x)

\* self.pixels[i] = pixel: the index is checked against the length of the slice
store(fb, i, pixel) ==
    IF 0 <= i /\ i < Len(fb.pixels)
    THEN [fb |-> [fb EXCEPT !.pixels[i + 1] = pixel], panic |-> FALSE]
    ELSE [fb |-> fb, panic |-> TRUE]

\* FrameBuffer::set_pixel, from the index on.  overflow_checks: the build panics
\* on integer overflow (the default of debug builds) instead of wrapping
set_pixel_at(fb, i, pixel, overflow_checks) ==
    IF i.overflow /\ overflow_checks THEN [fb |-> fb, panic |-> TRUE]
    ELSE IF Len(fb.pixels) # 0 THEN store(fb, i.value, pixel)
    ELSE [fb |-> fb, panic |-> FALSE]

\* FrameBuffer::set_pixel: the buffer afterwards, and whether the call panicked
set_pixel(fb, x, y, pixel, overflow_checks) ==
    set_pixel_at(fb, coord_to_index(fb, x, y), pixel, overflow_checks)

\* the bytes of one Pixel, #[repr(C)]: red, green, blue, alpha
PixelBytes(p) == <<p.red, p.green, p.blue, p.alpha>>

\* FrameBuffer::as_bytes: cast_slice of the pixels
as_bytes(fb) ==
    [j \in 1..(4 * Len(fb.pixels)) |->
        PixelBytes(fb.pixels[((j - 1) \div 4) + 1])[((j - 1) % 4) + 1]]

(***************************************************************************)
(* lib.rs: Pixely.  `self` below is the record of Pixely's fields together  *)
(* with the state of the wgpu objects it owns, the log of wgpu calls and    *)
(* whether the call panicked.                                               *)
(***************************************************************************)
VARIABLES
    framebuffer,          \* FrameBuffer
    framebuffer_changed,  \* bool
    config,               \* SurfaceConfiguration: width, height
    surface_changed,      \* bool
    texture,              \* Option<Texture>: extent and contents
    bind_group,           \* Option<BindGroup>
    vertices_changed,     \* bool
    surface,              \* Surface: the extent it was last configured with
    vertex_buffer,        \* Buffer: the vertices last written
    gpuLog,               \* wgpu calls of the last call on Pixely, in order
    lastCall,             \* the last call on Pixely
    result,               \* what it returned: "Ok", "Err" or "none" (no Result)
    panicked              \* a call panicked

vars == <<framebuffer, framebuffer_changed, config, surface_changed, texture,
          bind_group, vertices_changed, surface, vertex_buffer, gpuLog,
          lastCall, result, panicked>>

NoTexture == [some |-> FALSE, width |-> 0, height |-> 0, data |-> <<>>]
NoBindGroup == [some |-> FALSE]
Unconfigured == [configured |-> FALSE, width |-> 0, height |-> 0]

\* usize as u32: the values of the model are below 2^32, where the cast keeps them
AsU32(n) == n

\* the indices written to the index buffer by new
indices == <<0, 1, 2, 1, 3, 2>>

Self ==
    [framebuffer |-> framebuffer, framebuffer_changed |-> framebuffer_changed,
     config |-> config, surface_changed |-> surface_changed, texture |-> texture,
     bind_group |-> bind_group, vertices_changed |-> vertices_changed,
     surface |-> surface, vertex_buffer |-> vertex_buffer, log |-> <<>>,
     panicked |-> FALSE]

Logged(self, call) == [self EXCEPT !.log = Append(@, call)]

\* Pixely::new, from the surface being created
Pixely_new(fbW, fbH, sfW, sfH) ==
    [framebuffer |-> FrameBuffer_new(fbW, fbH),
     framebuffer_changed |-> TRUE,
     config |-> [width |-> AsU32(sfW), height |-> AsU32(sfH)],
     surface_changed |-> TRUE,
     texture |-> NoTexture,
     bind_group |-> NoBindGroup,
     vertices_changed |-> TRUE,
     surface |-> Unconfigured,
     vertex_buffer |-> <<>>,
     log |-> <<"create_surface", "create_shader_module", "create_bind_group_layout",
               "create_pipeline_layout", "create_render_pipeline", "create_sampler",
               "create_buffer", "write_buffer(index_buffer)", "create_buffer">>,
     panicked |-> FALSE]

\* recreate_texture that stores the texture and not the bind group
recreate_texture_without_bind_group(self) ==
    [Logged(Logged(self, "create_texture"), "create_bind_group") EXCEPT
        !.texture = [some |-> TRUE,
                     width |-> AsU32(self.framebuffer.width),
                     height |-> AsU32(self.framebuffer.height),
                     data |-> [j \in 1..(4 * AsU32(self.framebuffer.width)
                                           * AsU32(self.framebuffer.height)) |-> 0]]]

\* Pixely::recreate_texture
recreate_texture(self) ==
    [Logged(Logged(self, "create_texture"), "create_bind_group") EXCEPT
        !.texture = [some |-> TRUE,
                     width |-> AsU32(self.framebuffer.width),
                     height |-> AsU32(self.framebuffer.height),
                     data |-> [j \in 1..(4 * AsU32(self.framebuffer.width)
                                           * AsU32(self.framebuffer.height)) |-> 0]],
        !.bind_group = [some |-> TRUE]]

\* Pixely::reconfigure_surface
reconfigure_surface(self) ==
    [Logged(self, "configure") EXCEPT
        !.surface = [configured |-> TRUE, width |-> self.config.width,
                     height |-> self.config.height],
        !.surface_changed = FALSE]

\* upload_texture that leaves the content flag set
upload_texture_keeps_flag(self) ==
    IF ~self.texture.some THEN [self EXCEPT !.panicked = TRUE]
    ELSE [Logged(self, "write_texture") EXCEPT
             !.texture.data = as_bytes(self.framebuffer)]

\* Pixely::upload_texture
upload_texture(self) ==
    IF ~self.texture.some THEN [self EXCEPT !.panicked = TRUE]
    ELSE [Logged(self, "write_texture") EXCEPT
             !.texture.data = as_bytes(self.framebuffer),
             !.framebuffer_changed = FALSE]

\* get_quad_size taking the other branch of the comparison
quad_size_of_other_branch(height_of_width, width_of_height, width, height) ==
    IF F32Le(height_of_width, height)
    THEN <<F32Div(width_of_height, width), F32One>>
    ELSE <<F32One, F32Div(height_of_width, height)>>

\* Pixely::get_quad_size, from the comparison on
quad_size_of(height_of_width, width_of_height, width, height) ==
    IF F32Le(height_of_width, height)
    THEN <<F32One, F32Div(height_of_width, height)>>
    ELSE <<F32Div(width_of_height, width), F32One>>

\* Pixely::get_quad_size, from frame_aspect, width and height on
quad_size_at(frame_aspect, width, height) ==
    quad_size_of(F32Mul(width, frame_aspect), F32Div(height, frame_aspect),
                 width, height)

\* get_quad_size with frame_aspect as width over height
get_quad_size_width_over_height(self) ==
    quad_size_at(F32Div(AsF32(self.framebuffer.width), AsF32(self.framebuffer.height)),
                 AsF32(self.config.width), AsF32(self.config.height))

\* Pixely::get_quad_size
get_quad_size(self) ==
    quad_size_at(F32Div(AsF32(self.framebuffer.height), AsF32(self.framebuffer.width)),
                 AsF32(self.config.width), AsF32(self.config.height))

\* vertex
vertex(position, tex_coord) == [position |-> position, tex_coord |-> tex_coord]

\* update_vertex_buffer that leaves the geometry flag set
write_vertices_keeps_flag(self, width, height) ==
    [Logged(self, "write_buffer(vertex_buffer)") EXCEPT
        !.vertex_buffer =
            <<vertex(<<F32Neg(width), F32Neg(height)>>, <<F32Zero, F32One>>),
              vertex(<<F32Neg(width), height>>, <<F32Zero, F32Zero>>),
              vertex(<<width, F32Neg(height)>>, <<F32One, F32One>>),
              vertex(<<width, height>>, <<F32One, F32Zero>>)>>]

\* Pixely::update_vertex_buffer, from the vertices on
write_vertices(self, width, height) ==
    [Logged(self, "write_buffer(vertex_buffer)") EXCEPT
        !.vertex_buffer =
            <<vertex(<<F32Neg(width), F32Neg(height)>>, <<F32Zero, F32One>>),
              vertex(<<F32Neg(width), height>>, <<F32Zero, F32Zero>>),
              vertex(<<width, F32Neg(height)>>, <<F32One, F32One>>),
              vertex(<<width, height>>, <<F32One, F32Zero>>)>>,
        !.vertices_changed = FALSE]

write_quad(self, quad) == write_vertices(self, quad[1], quad[2])

\* Pixely::update_vertex_buffer
update_vertex_buffer(self) == write_quad(self, get_quad_size(self))

\* buffer_mut that hands out the framebuffer without setting the content flag
buffer_mut_unflagged(self) == self

\* Pixely::buffer_mut
buffer_mut(self) == [self EXCEPT !.framebuffer_changed = TRUE]

\* resize_framebuffer that leaves the texture in place
resize_framebuffer_keeps_texture(self, width, height) ==
    [self EXCEPT !.vertices_changed = TRUE,
                 !.framebuffer_changed = TRUE,
                 !.framebuffer = FrameBuffer_new(width, height)]

\* resize_framebuffer that drops the texture and leaves the bind group in place
resize_framebuffer_keeps_bind_group(self, width, height) ==
    [self EXCEPT !.texture = NoTexture,
                 !.vertices_changed = TRUE,
                 !.framebuffer_changed = TRUE,
                 !.framebuffer = FrameBuffer_new(width, height)]

\* Pixely::resize_framebuffer
resize_framebuffer(self, width, height) ==
    [self EXCEPT !.texture = NoTexture,
                 !.bind_group = NoBindGroup,
                 !.vertices_changed = TRUE,
                 !.framebuffer_changed = TRUE,
                 !.framebuffer = FrameBuffer_new(width, height)]

\* resize_surface that drops the texture and the bind group as well
resize_surface_drops_texture(self, width, height) ==
    [self EXCEPT !.texture = NoTexture,
                 !.bind_group = NoBindGroup,
                 !.vertices_changed = TRUE,
                 !.surface_changed = TRUE,
                 !.config = [width |-> AsU32(width), height |-> AsU32(height)]]

\* resize_surface that leaves the geometry flag alone
resize_surface_keeps_geometry(self, width, height) ==
    [self EXCEPT !.surface_changed = TRUE,
                 !.config = [width |-> AsU32(width), height |-> AsU32(height)]]

\* Pixely::resize_surface
resize_surface(self, width, height) ==
    [self EXCEPT !.vertices_changed = TRUE,
                 !.surface_changed = TRUE,
                 !.config = [width |-> AsU32(width), height |-> AsU32(height)]]

\* render, lines 288-290
render_recreate(self, texture_recreated) ==
    IF texture_recreated THEN recreate_texture(self) ELSE self

\* render uploading only into a texture it has just created
render_upload_when_recreated(self, texture_recreated) ==
    IF texture_recreated THEN upload_texture(self) ELSE self

\* render, lines 291-293
render_upload(self, texture_recreated) ==
    IF texture_recreated \/ self.framebuffer_changed THEN upload_texture(self) ELSE self

\* render, lines 294-296
render_surface(self) ==
    IF self.panicked THEN self
    ELSE IF self.surface_changed THEN reconfigure_surface(self) ELSE self

\* render, lines 297-299
render_vertices(self) ==
    IF self.panicked THEN self
    ELSE IF self.vertices_changed THEN update_vertex_buffer(self) ELSE self

\* render, lines 302-325: the render pass, submit and present
draw_and_present(self) ==
    IF ~self.bind_group.some THEN [self |-> [self EXCEPT !.panicked = TRUE], ret |-> "none"]
    ELSE [self |-> [self EXCEPT !.log = @ \o <<"draw_indexed(0..6)", "submit", "present">>],
          ret |-> "Ok"]

\* render acquiring a second time after a failure, and drawing
render_acquire_retries(self, acquired) ==
    IF self.panicked THEN [self |-> self, ret |-> "none"]
    ELSE IF ~acquired
    THEN draw_and_present(Logged(Logged(self, "get_current_texture"),
                                 "get_current_texture"))
    ELSE draw_and_present(Logged(self, "get_current_texture"))

\* render, line 301 on; acquired: whether get_current_texture returned an image
render_acquire(self, acquired) ==
    IF self.panicked THEN [self |-> self, ret |-> "none"]
    ELSE IF ~acquired THEN [self |-> Logged(self, "get_current_texture"), ret |-> "Err"]
    ELSE draw_and_present(Logged(self, "get_current_texture"))

\* render recomputing the geometry before it reconfigures the surface
render_frame_geometry_first(self, texture_recreated, acquired) ==
    render_acquire(
        render_surface(
            render_vertices(
                render_upload(render_recreate(self, texture_recreated),
                              texture_recreated))),
        acquired)

\* render, lines 287-326
render_frame(self, texture_recreated, acquired) ==
    render_acquire(
        render_vertices(
            render_surface(
                render_upload(render_recreate(self, texture_recreated),
                              texture_recreated))),
        acquired)

\* render returning early only when both dimensions are zero
render_guard_both(self, acquired) ==
    IF self.config.width = 0 /\ self.config.height = 0
    THEN [self |-> self, ret |-> "Ok"]
    ELSE render_frame(self, ~self.texture.some, acquired)

\* Pixely::render
render(self, acquired) ==
    IF self.config.width = 0 \/ self.config.height = 0
    THEN [self |-> self, ret |-> "Ok"]
    ELSE render_frame(self, ~self.texture.some, acquired)

(***************************************************************************)
(* The calls a program can make on a Pixely.                                *)
(***************************************************************************)
\* the variables after a call that left `self` and returned `ret`
Becomes(self, call, ret) ==
    \E after \in {self} :
        /\ framebuffer' = after.framebuffer
        /\ framebuffer_changed' = after.framebuffer_changed
        /\ config' = after.config
        /\ surface_changed' = after.surface_changed
        /\ texture' = after.texture
        /\ bind_group' = after.bind_group
        /\ vertices_changed' = after.vertices_changed
        /\ surface' = after.surface
        /\ vertex_buffer' = after.vertex_buffer
        /\ gpuLog' = after.log
        /\ panicked' = after.panicked
        /\ lastCall' = call
        /\ result' = ret

Returns(r, call) == \E returned \in {r} : Becomes(returned.self, call, returned.ret)

\* the variables are the fields of `self`, just constructed
Is(self) ==
       /\ framebuffer = self.framebuffer
       /\ framebuffer_changed = self.framebuffer_changed
       /\ config = self.config
       /\ surface_changed = self.surface_changed
       /\ texture = self.texture
       /\ bind_group = self.bind_group
       /\ vertices_changed = self.vertices_changed
       /\ surface = self.surface
       /\ vertex_buffer = self.vertex_buffer
       /\ gpuLog = self.log
       /\ panicked = self.panicked
       /\ lastCall = "new"
       /\ result = "Ok"

Constructed(fbW, fbH, sfW, sfH) == Is(Pixely_new(fbW, fbH, sfW, sfH))

Init == \E fbW, fbH \in FbDims : \E sfW, sfH \in SfDims : Constructed(fbW, fbH, sfW, sfH)

\* pixely.buffer_mut(), the handle dropped without a write
BufferMut ==
    /\ ~panicked
    /\ Becomes(buffer_mut(Self), "buffer_mut", "none")

\* set_pixel on the framebuffer of self
written_as(self, w) == [self EXCEPT !.framebuffer = w.fb, !.panicked = w.panic]
written(self, x, y, pixel, overflow_checks) ==
    written_as(self, set_pixel(self.framebuffer, x, y, pixel, overflow_checks))

\* pixely.buffer_mut().set_pixel(x, y, pixel), in a build with or without
\* overflow checks
SetPixelAt(x, y, pixel) ==
    /\ ~panicked
    /\ \E overflow_checks \in BOOLEAN :
          Becomes(written(buffer_mut(Self), x, y, pixel, overflow_checks),
                  "set_pixel", "none")

SetPixel == \E x, y \in Coords : \E pixel \in Colors : SetPixelAt(x, y, pixel)

ResizeFramebufferTo(width, height) ==
    /\ ~panicked
    /\ Becomes(resize_framebuffer(Self, width, height), "resize_framebuffer", "none")

ResizeFramebuffer == \E width, height \in FbDims : ResizeFramebufferTo(width, height)

ResizeSurfaceTo(width, height) ==
    /\ ~panicked
    /\ Becomes(resize_surface(Self, width, height), "resize_surface", "none")

ResizeSurface == \E width, height \in SfDims : ResizeSurfaceTo(width, height)

RenderWith(acquired) ==
    /\ ~panicked
    /\ Returns(render(Self, acquired), "render")

Render == \E acquired \in BOOLEAN : RenderWith(acquired)

\* pixely.buffer_mut().set_pixel(0, 0, pixel): the one write Spec makes, so that
\* the contents of the framebuffer and of the texture differ in one cell at most
SetOrigin == \E pixel \in Colors : SetPixelAt(0, 0, pixel)

Next == BufferMut \/ SetOrigin \/ ResizeFramebuffer \/ ResizeSurface \/ Render

Spec == Init /\ [][Next]_vars

(***************************************************************************)
(* SpecFb: the framebuffer alone, written at every coordinate of Coords and *)
(* replaced, with no render in between, on a square surface of any size.    *)
(***************************************************************************)
InitFb == \E fbW, fbH \in FbDims : \E sf \in SfDims : Constructed(fbW, fbH, sf, sf)

NextFb == SetPixel \/ ResizeFramebuffer

SpecFb == InitFb /\ [][NextFb]_vars

(***************************************************************************)
(* SpecQuad: a Pixely constructed with any of QuadInputs and then rendered, *)
(* for the f32 results of get_quad_size on more sizes than Spec reaches.    *)
(***************************************************************************)
QuadDims == 0..MaxQuadDim
QuadInputs ==
    (QuadDims \X QuadDims \X QuadDims \X QuadDims)
        \cup {<<100, 50, 200, 200>>, <<50, 100, 200, 200>>}

InitQuad == \E i \in QuadInputs : Constructed(i[1], i[2], i[3], i[4])

SpecQuad == InitQuad /\ [][Render]_vars


(***************************************************************************)
(* Helpers of the properties.                                               *)
(***************************************************************************)
InLog(log, call) == \E i \in 1..Len(log) : log[i] = call
CountInLog(log, call) == Cardinality({i \in 1..Len(log) : log[i] = call})
\* every `first` in log comes before every `second`
Precedes(log, first, second) ==
    \A i, j \in 1..Len(log) : (log[i] = first /\ log[j] = second) => i < j

InRange(fb, x, y) == 0 <= x /\ x < fb.width /\ 0 <= y /\ y < fb.height
\* a render of the current state passes the zero-surface guard
PassesGuard == config.width # 0 /\ config.height # 0
OtherPixel == Pixel(1, 2, 3, 4)

\* the step is the call named `call` (tested first: it is cheap to evaluate)
ResizeFramebufferStep == lastCall' = "resize_framebuffer" /\ ResizeFramebuffer
RenderStep == lastCall' = "render" /\ Render
RenderStepWith(acquired) == lastCall' = "render" /\ RenderWith(acquired)
SetPixelStep(x, y, pixel) == lastCall' = "set_pixel" /\ SetPixelAt(x, y, pixel)

(***************************************************************************)
(* C1: on a non-empty framebuffer, set_pixel(x, y, color) with (x, y)       *)
(* outside [0,width) x [0,height) does not panic and changes no cell.       *)
(***************************************************************************)
C1_OutOfRangeIgnored ==
    [][\A x, y \in Coords : \A pixel \in Colors :
          (/\ Len(framebuffer.pixels) # 0
           /\ ~InRange(framebuffer, x, y)
           /\ SetPixelStep(x, y, pixel))
          => (~panicked' /\ framebuffer' = framebuffer)]_vars

(***************************************************************************)
(* C2: after set_pixel(x, y, c) with x < W and y < H the four bytes of      *)
(* as_bytes() from offset 4*(y*W + x) are c.red, c.green, c.blue, c.alpha,  *)
(* every other cell is unchanged, and width, height and the number of cells *)
(* are unchanged.                                                           *)
(***************************************************************************)
C2_InRangeWrite ==
    [][\A x, y \in Coords : \A pixel \in Colors :
          (InRange(framebuffer, x, y) /\ SetPixelStep(x, y, pixel))
          => LET offset == 4 * (y * framebuffer.width + x)
                 before == as_bytes(framebuffer)
                 after == as_bytes(framebuffer')
             IN /\ ~panicked'
                /\ Len(after) = Len(before)
                /\ after[offset + 1] = pixel.red
                /\ after[offset + 2] = pixel.green
                /\ after[offset + 3] = pixel.blue
                /\ after[offset + 4] = pixel.alpha
                /\ \A j \in 1..Len(before) :
                      (j <= offset \/ j > offset + 4) => after[j] = before[j]
                /\ framebuffer'.width = framebuffer.width
                /\ framebuffer'.height = framebuffer.height
                /\ Len(framebuffer'.pixels) = framebuffer.width * framebuffer.height]_vars

\* the last cell of the largest framebuffer has been written, the first has not
C2_Witness ==
    /\ lastCall = "set_pixel"
    /\ ~panicked
    /\ framebuffer.width = MaxFbDim
    /\ framebuffer.height = MaxFbDim
    /\ framebuffer.pixels[MaxFbDim * MaxFbDim] = OtherPixel
    /\ framebuffer.pixels[1] = black
    /\ framebuffer.pixels[2] = OtherPixel

(***************************************************************************)
(* C3: the framebuffer made by FrameBuffer::new(W, H), at construction and  *)
(* in resize_framebuffer(W, H), has width W, height H and W*H cells, all    *)
(* black {0,0,0,255}, whatever the previous framebuffer held.               *)
(***************************************************************************)
AllBlack(fb) ==
    /\ Len(fb.pixels) = fb.width * fb.height
    /\ \A i \in 1..Len(fb.pixels) :
          fb.pixels[i] = [red |-> 0, green |-> 0, blue |-> 0, alpha |-> 255]

C3_NewIsBlack ==
    /\ (lastCall = "new" => AllBlack(framebuffer))
    /\ [][\A width, height \in FbDims :
            (lastCall' = "resize_framebuffer" /\ ResizeFramebufferTo(width, height))
            => /\ framebuffer'.width = width
               /\ framebuffer'.height = height
               /\ AllBlack(framebuffer')]_vars

C3_Witness ==
    /\ lastCall = "resize_framebuffer"
    /\ framebuffer.width = MaxFbDim
    /\ framebuffer.height = MaxFbDim
    /\ Len(framebuffer.pixels) = MaxFbDim * MaxFbDim

(***************************************************************************)
(* C4: with the configured surface width or height 0, render returns Ok,    *)
(* makes no wgpu call at all (no allocation, upload, configure, acquire,    *)
(* draw, submit or present) and leaves the dirty flags, the texture and the *)
(* bind group unchanged.                                                    *)
(***************************************************************************)
C4_ZeroSurfaceNoOp ==
    [][\A acquired \in BOOLEAN :
          (~PassesGuard /\ RenderStepWith(acquired))
          => /\ result' = "Ok"
             /\ ~panicked'
             /\ gpuLog' = <<>>
             /\ UNCHANGED <<framebuffer_changed, surface_changed, vertices_changed,
                            texture, bind_group, surface, vertex_buffer>>]_vars

\* a guarded render of a Pixely that had rendered before and was resized since
C4_Witness ==
    /\ lastCall = "render"
    /\ ~PassesGuard
    /\ result = "Ok"
    /\ gpuLog = <<>>
    /\ texture.some
    /\ surface_changed
    /\ vertices_changed

(***************************************************************************)
(* C5: after resize_framebuffer the texture and the bind group are absent,  *)
(* and stay absent until a render passes the zero-surface guard; that       *)
(* render creates a texture with the framebuffer's dimensions, creates the  *)
(* bind group and uploads the framebuffer's bytes, all before its draw.     *)
(***************************************************************************)
C5_ResizeRecreates ==
    [][/\ ResizeFramebufferStep => (~texture'.some /\ ~bind_group'.some)
       /\ (~texture.some /\ ~(PassesGuard /\ RenderStep))
             => (~texture'.some /\ ~bind_group'.some)
       /\ (~texture.some /\ PassesGuard /\ RenderStep)
             => /\ ~panicked'
                /\ Len(gpuLog') >= 3
                /\ gpuLog'[1] = "create_texture"
                /\ gpuLog'[2] = "create_bind_group"
                /\ gpuLog'[3] = "write_texture"
                /\ Precedes(gpuLog', "write_texture", "draw_indexed(0..6)")
                /\ texture'.some
                /\ bind_group'.some
                /\ texture'.width = framebuffer'.width
                /\ texture'.height = framebuffer'.height
                /\ texture'.data = as_bytes(framebuffer')
                /\ framebuffer' = framebuffer]_vars

\* the texture was created by a render whose surface was already configured: the
\* framebuffer was resized after an earlier render
C5_Witness ==
    /\ lastCall = "render"
    /\ gpuLog = <<"create_texture", "create_bind_group", "write_texture",
                  "write_buffer(vertex_buffer)", "get_current_texture",
                  "draw_indexed(0..6)", "submit", "present">>
    /\ texture.width = MaxFbDim
    /\ texture.height = 1
    /\ texture.data[1] = 0 /\ texture.data[4] = 255

(***************************************************************************)
(* C6: resize_surface(w, h) sets the configured width and height and the    *)
(* geometry-dirty and surface-dirty flags and nothing else; the render that *)
(* follows creates no texture if one was present and uploads no pixels if   *)
(* the content-dirty flag was clear.                                        *)
(***************************************************************************)
C6_ResizeSurfaceOnly ==
    [][/\ \A width, height \in SfDims :
            (lastCall' = "resize_surface" /\ ResizeSurfaceTo(width, height))
            => /\ config' = [width |-> width, height |-> height]
               /\ vertices_changed'
               /\ surface_changed'
               /\ UNCHANGED <<framebuffer, framebuffer_changed, texture, bind_group,
                              surface, vertex_buffer>>
       /\ (lastCall = "resize_surface" /\ RenderStep)
            => /\ texture.some
                  => (~InLog(gpuLog', "create_texture")
                      /\ ~InLog(gpuLog', "create_bind_group")
                      /\ texture'.width = texture.width
                      /\ texture'.height = texture.height)
               /\ ~framebuffer_changed
                  => (~InLog(gpuLog', "write_texture") /\ texture' = texture)]_vars

\* a render that only reconfigured the surface and recomputed the geometry
C6_Witness ==
    /\ lastCall = "render"
    /\ gpuLog = <<"configure", "write_buffer(vertex_buffer)", "get_current_texture",
                  "draw_indexed(0..6)", "submit", "present">>
    /\ surface.width = MaxSfDim
    /\ surface.height = 1

(***************************************************************************)
(* C7: in every reachable state the texture is present if and only if the   *)
(* bind group is present.                                                   *)
(***************************************************************************)
C7_TextureIffBindGroup == texture.some <=> bind_group.some

\* both were present (the surface has been configured by a render) and were dropped
C7_Witness ==
    /\ lastCall = "resize_framebuffer"
    /\ surface.configured
    /\ ~texture.some
    /\ ~bind_group.some

(***************************************************************************)
(* C10: when get_current_texture fails, render returns the error after that *)
(* one attempt and neither draws, submits nor presents.                     *)
(***************************************************************************)
C10_AcquireFailure ==
    [][(PassesGuard /\ RenderStepWith(FALSE))
          => /\ result' = "Err"
             /\ ~panicked'
             /\ CountInLog(gpuLog', "get_current_texture") = 1
             /\ gpuLog'[Len(gpuLog')] = "get_current_texture"
             /\ ~InLog(gpuLog', "draw_indexed(0..6)")
             /\ ~InLog(gpuLog', "submit")
             /\ ~InLog(gpuLog', "present")]_vars

C10_Witness ==
    /\ lastCall = "render"
    /\ result = "Err"
    /\ gpuLog = <<"get_current_texture">>


(***************************************************************************)
(* The quad of the last geometry upload, and exact arithmetic on it.        *)
(***************************************************************************)
\* the render just made recomputed and uploaded the geometry
GeometryComputed == lastCall = "render" /\ InLog(gpuLog, "write_buffer(vertex_buffer)")
\* the half-extents (w, h): the position of the last vertex written
QuadW == vertex_buffer[4].position[1]
QuadH == vertex_buffer[4].position[2]

F32Positive(a) == a.k = "fin" /\ a.s = 0 /\ a.m > 0
Min(a, b) == IF a <= b THEN a ELSE b
Abs(n) == IF n < 0 THEN 0 - n ELSE n
\* the integer a * c * 2^(-emin), for a finite a >= 0 with a.e >= emin
Scaled(a, c, emin) == a.m * c * Pow2(a.e - emin)
\* 2^(-21): the relative error allowed to seven roundings to f32
RoundingShift == F32_MANTISSA_DIGITS - 3

\* h * sfH * fbW = w * sfW * fbH, exactly
Undistorted(w, h, fbW, fbH, sfW, sfH) ==
    Scaled(h, sfH * fbW, Min(w.e, h.e)) = Scaled(w, sfW * fbH, Min(w.e, h.e))

\* |h * sfH * fbW - w * sfW * fbH| <= 2^(-21) * w * sfW * fbH
NearlyUndistorted(w, h, fbW, fbH, sfW, sfH) ==
    Abs(Scaled(h, sfH * fbW, Min(w.e, h.e)) - Scaled(w, sfW * fbH, Min(w.e, h.e)))
        <= Scaled(w, sfW * fbH, Min(w.e, h.e)) \div Pow2(RoundingShift)

\* |a - p/q| <= 2^(-21) * p/q, for a finite 0 < a <= 1 and integers p, q > 0
Near(a, p, q) ==
    Abs(a.m * q - p * Pow2(0 - a.e)) <= (p * Pow2(0 - a.e)) \div Pow2(RoundingShift)

(***************************************************************************)
(* C8 as stated: whenever render recomputes the geometry (sfW, sfH > 0),    *)
(* for every framebuffer size the half-extents satisfy 0 < w <= 1 and       *)
(* 0 < h <= 1, one of them is 1, and h*sfH*fbW = w*sfW*fbH exactly.         *)
(***************************************************************************)
C8_QuadFitsExactly ==
    GeometryComputed
    => /\ F32Positive(QuadW) /\ F32Le(QuadW, F32One)
       /\ F32Positive(QuadH) /\ F32Le(QuadH, F32One)
       /\ (QuadW = F32One \/ QuadH = F32One)
       /\ Undistorted(QuadW, QuadH, framebuffer.width, framebuffer.height,
                      config.width, config.height)

(***************************************************************************)
(* C8 as amended: whenever render recomputes the geometry for a framebuffer *)
(* with fbW > 0 and fbH > 0, the half-extents satisfy 0 < w <= 1 and        *)
(* 0 < h <= 1, one of them is 1, and the quad is undistorted up to the      *)
(* rounding of f32: |h*sfH*fbW - w*sfW*fbH| <= 2^(-21) * w*sfW*fbH.         *)
(***************************************************************************)
C8_QuadFits ==
    (GeometryComputed /\ framebuffer.width > 0 /\ framebuffer.height > 0)
    => /\ F32Positive(QuadW) /\ F32Le(QuadW, F32One)
       /\ F32Positive(QuadH) /\ F32Le(QuadH, F32One)
       /\ (QuadW = F32One \/ QuadH = F32One)
       /\ NearlyUndistorted(QuadW, QuadH, framebuffer.width, framebuffer.height,
                            config.width, config.height)

\* a 3 x 1 framebuffer on a 5 x 2 surface: h is 5/6 rounded to f32, not 5/6
C8_Witness ==
    /\ GeometryComputed
    /\ framebuffer.width = 3 /\ framebuffer.height = 1
    /\ config.width = 5 /\ config.height = 2
    /\ QuadW = F32One
    /\ QuadH = [k |-> "fin", s |-> 0, m |-> 6990507, e |-> -23]

(***************************************************************************)
(* C9 as stated: get_quad_size equals the reference formula, computed in    *)
(* f32 as written: heightOfWidth = sfW*fbH/fbW; if heightOfWidth <= sfH the *)
(* result is (1, heightOfWidth/sfH), otherwise ((sfH*fbW/fbH)/sfW, 1); and  *)
(* (100,50,200,200) gives (1.0,0.5), (50,100,200,200) gives (0.5,1.0).      *)
(***************************************************************************)
ReferenceSelect(heightOfWidth, fbW, fbH, sfW, sfH) ==
    IF F32Le(heightOfWidth, sfH)
    THEN <<F32One, F32Div(heightOfWidth, sfH)>>
    ELSE <<F32Div(F32Div(F32Mul(sfH, fbW), fbH), sfW), F32One>>

ReferenceF32(fbW, fbH, sfW, sfH) ==
    ReferenceSelect(F32Div(F32Mul(sfW, fbH), fbW), fbW, fbH, sfW, sfH)

F32Half == [k |-> "fin", s |-> 0, m |-> 1, e |-> -1]

IsExample1 ==
    /\ framebuffer.width = 100 /\ framebuffer.height = 50
    /\ config.width = 200 /\ config.height = 200
IsExample2 ==
    /\ framebuffer.width = 50 /\ framebuffer.height = 100
    /\ config.width = 200 /\ config.height = 200

ExamplesExact ==
    /\ IsExample1 => (QuadW = F32One /\ QuadH = F32Half)
    /\ IsExample2 => (QuadW = F32Half /\ QuadH = F32One)

C9_EqualsReference ==
    GeometryComputed
    => /\ <<QuadW, QuadH>> = ReferenceF32(AsF32(framebuffer.width),
                                          AsF32(framebuffer.height),
                                          AsF32(config.width), AsF32(config.height))
       /\ ExamplesExact

(***************************************************************************)
(* C9 as amended: for fbW > 0 and fbH > 0 each component of get_quad_size   *)
(* is within a relative error of 2^(-21) of the exact value of the          *)
(* reference formula, (1, (sfW*fbH)/(fbW*sfH)) if sfW*fbH <= sfH*fbW and    *)
(* ((sfH*fbW)/(fbH*sfW), 1) otherwise; and (100,50,200,200) gives exactly   *)
(* (1.0,0.5), (50,100,200,200) exactly (0.5,1.0).                           *)
(***************************************************************************)
NearReference(w, h, fbW, fbH, sfW, sfH) ==
    IF sfW * fbH <= sfH * fbW
    THEN Near(w, 1, 1) /\ Near(h, sfW * fbH, fbW * sfH)
    ELSE Near(w, sfH * fbW, fbH * sfW) /\ Near(h, 1, 1)

C9_NearReference ==
    (GeometryComputed /\ framebuffer.width > 0 /\ framebuffer.height > 0)
    => /\ F32Positive(QuadW) /\ F32Positive(QuadH)
       /\ NearReference(QuadW, QuadH, framebuffer.width, framebuffer.height,
                        config.width, config.height)
       /\ ExamplesExact

\* the second example: a tall framebuffer, a narrow quad
C9_Witness ==
    /\ GeometryComputed
    /\ IsExample2
    /\ QuadW = F32Half
    /\ QuadH = F32One


(***************************************************************************)
(* What the calls of the last render show.                                  *)
(***************************************************************************)
Acquired == lastCall = "render" /\ InLog(gpuLog, "get_current_texture")
Drawn == lastCall = "render" /\ InLog(gpuLog, "draw_indexed(0..6)")

(***************************************************************************)
(* C11: at every draw issued by render, after any sequence of set_pixel,    *)
(* buffer_mut, resize_framebuffer, resize_surface and earlier renders       *)
(* (guarded or failed at acquisition included), the texture is present, its *)
(* width and height are the framebuffer's, and the bytes last written to it *)
(* are the framebuffer's as_bytes().                                        *)
(***************************************************************************)
C11_DrawsCurrentPixels ==
    Drawn => /\ texture.some
             /\ texture.width = framebuffer.width
             /\ texture.height = framebuffer.height
             /\ texture.data = as_bytes(framebuffer)

\* a draw by a render that uploaded nothing itself: the pixel written before it was
\* uploaded by an earlier render, which failed at acquisition
C11_Witness ==
    /\ Drawn
    /\ gpuLog = <<"get_current_texture", "draw_indexed(0..6)", "submit", "present">>
    /\ framebuffer.width = MaxFbDim
    /\ framebuffer.height = MaxFbDim
    /\ framebuffer.pixels[1] = OtherPixel
    /\ texture.data[1] = OtherPixel.red
    /\ texture.data[4] = OtherPixel.alpha

(***************************************************************************)
(* C12: at every image acquisition and draw issued by render, the surface   *)
(* has been configured and the extent it was last configured with is the    *)
(* current config.width x config.height, and the four vertex positions last *)
(* uploaded are (-w,-h), (-w,h), (w,-h), (w,h) for (w, h) the result of     *)
(* get_quad_size on the current framebuffer and configured dimensions; also *)
(* after resizes followed by guarded renders or failed acquisitions.        *)
(***************************************************************************)
\* the positions in the vertex buffer are those of the quad with half-extents (w, h)
PositionsOf(w, h) ==
    /\ Len(vertex_buffer) = 4
    /\ vertex_buffer[1].position = <<F32Neg(w), F32Neg(h)>>
    /\ vertex_buffer[2].position = <<F32Neg(w), h>>
    /\ vertex_buffer[3].position = <<w, F32Neg(h)>>
    /\ vertex_buffer[4].position = <<w, h>>
PositionsOfQuad(quad) == PositionsOf(quad[1], quad[2])

C12_SurfaceAndGeometryCurrent ==
    Acquired => /\ surface.configured
                /\ surface.width = config.width
                /\ surface.height = config.height
                /\ PositionsOfQuad(get_quad_size(Self))

\* an acquisition and draw by a render that neither configured nor uploaded
\* vertices: a tall framebuffer on a wide surface, the surface configured and the
\* narrow quad uploaded by an earlier render
C12_Witness ==
    /\ Acquired
    /\ gpuLog = <<"get_current_texture", "draw_indexed(0..6)", "submit", "present">>
    /\ framebuffer.width = 1 /\ framebuffer.height = MaxFbDim
    /\ config.width = MaxSfDim /\ config.height = 1
    /\ surface.width = MaxSfDim /\ surface.height = 1
    /\ QuadH = F32One
    /\ QuadW # F32One

(***************************************************************************)
(* C13: the wgpu calls of a render that passes the zero-surface guard are,  *)
(* in this order: create_texture and create_bind_group (if the texture was  *)
(* absent), write_texture (if the texture was absent or the content flag    *)
(* set), configure (if the surface flag was set), the write of the vertex   *)
(* buffer (if the geometry flag was set), get_current_texture, and then,    *)
(* the acquisition having returned an image, exactly one draw_indexed of    *)
(* 0..6, one submit and one present.  In particular configure precedes the  *)
(* write of the vertex buffer, and the surface is configured at every       *)
(* acquisition, the first included.                                         *)
(***************************************************************************)
When(condition, calls) == IF condition THEN calls ELSE <<>>

\* the calls of a render of the current state that passes the guard
ExpectedCalls(acquired) ==
    When(~texture.some, <<"create_texture", "create_bind_group">>)
        \o When(~texture.some \/ framebuffer_changed, <<"write_texture">>)
        \o When(surface_changed, <<"configure">>)
        \o When(vertices_changed, <<"write_buffer(vertex_buffer)">>)
        \o <<"get_current_texture">>
        \o When(acquired, <<"draw_indexed(0..6)", "submit", "present">>)

C13_StepsInOrder ==
    [][\A acquired \in BOOLEAN :
          (PassesGuard /\ RenderStepWith(acquired))
          => /\ ~panicked'
             /\ gpuLog' = ExpectedCalls(acquired)
             /\ Precedes(gpuLog', "configure", "write_buffer(vertex_buffer)")
             /\ surface'.configured
             /\ acquired => /\ CountInLog(gpuLog', "draw_indexed(0..6)") = 1
                             /\ CountInLog(gpuLog', "submit") = 1
                             /\ CountInLog(gpuLog', "present") = 1]_vars

\* the first render of a Pixely: every step taken, the surface configured before
\* its first acquisition
C13_Witness ==
    /\ lastCall = "render"
    /\ result = "Ok"
    /\ gpuLog = <<"create_texture", "create_bind_group", "write_texture", "configure",
                  "write_buffer(vertex_buffer)", "get_current_texture",
                  "draw_indexed(0..6)", "submit", "present">>
    /\ surface.configured

(***************************************************************************)
(* C14: a render that passes the zero-surface guard and follows a render    *)
(* that passed it, with no buffer_mut, resize_framebuffer or resize_surface *)
(* in between, creates no texture or bind group, uploads no pixels, does    *)
(* not configure the surface and writes no vertices: its only wgpu calls    *)
(* are get_current_texture and, with an image acquired, draw_indexed,       *)
(* submit and present.                                                      *)
(***************************************************************************)
C14_RepeatedRenderOnlyDraws ==
    [][\A acquired \in BOOLEAN :
          (lastCall = "render" /\ PassesGuard /\ RenderStepWith(acquired))
          => /\ gpuLog' = <<"get_current_texture">>
                             \o When(acquired, <<"draw_indexed(0..6)", "submit", "present">>)
             /\ UNCHANGED <<texture, bind_group, surface, vertex_buffer>>]_vars

\* a render that drew and made no other call: the render before it had prepared
\* the texture, the surface and the vertices
C14_Witness ==
    /\ lastCall = "render"
    /\ result = "Ok"
    /\ gpuLog = <<"get_current_texture", "draw_indexed(0..6)", "submit", "present">>
    /\ texture.width = MaxFbDim /\ texture.height = 1
    /\ surface.width = 1 /\ surface.height = MaxSfDim

(***************************************************************************)
(* C15: buffer_mut() sets the content flag and changes nothing else (the    *)
(* framebuffer, the texture, the bind group, the surface and geometry flags *)
(* and the configured dimensions are unchanged, no wgpu call is made); the  *)
(* flag stays set until a render passes the zero-surface guard, and that    *)
(* render uploads the framebuffer's bytes exactly once, also when no pixel  *)
(* was written through the handle.                                          *)
(***************************************************************************)
C15_BufferMutMarksContent ==
    [][/\ (lastCall' = "buffer_mut" /\ BufferMut)
            => /\ framebuffer_changed'
               /\ gpuLog' = <<>>
               /\ UNCHANGED <<framebuffer, config, surface_changed, texture, bind_group,
                              vertices_changed, surface, vertex_buffer>>
       /\ (framebuffer_changed /\ ~(PassesGuard /\ RenderStep)) => framebuffer_changed'
       /\ (framebuffer_changed /\ PassesGuard /\ RenderStep)
            => /\ CountInLog(gpuLog', "write_texture") = 1
               /\ texture'.data = as_bytes(framebuffer)
               /\ framebuffer' = framebuffer]_vars

\* a render whose only preparation was the upload, of a framebuffer still black
C15_Witness ==
    /\ lastCall = "render"
    /\ gpuLog = <<"write_texture", "get_current_texture", "draw_indexed(0..6)",
                  "submit", "present">>
    /\ Len(framebuffer.pixels) = MaxFbDim * MaxFbDim
    /\ AllBlack(framebuffer)
    /\ texture.data = as_bytes(framebuffer)

(***************************************************************************)
(* C16: after every render that passes the zero-surface guard, whether its  *)
(* acquisition succeeds or fails, the texture and the bind group are        *)
(* present and the content, surface and geometry flags are all clear.       *)
(***************************************************************************)
C16_RenderLeavesClean ==
    [][(PassesGuard /\ RenderStep)
          => /\ ~panicked'
             /\ texture'.some
             /\ bind_group'.some
             /\ ~framebuffer_changed'
             /\ ~surface_changed'
             /\ ~vertices_changed']_vars

\* a first render that failed at acquisition, after every preparation step
C16_Witness ==
    /\ lastCall = "render"
    /\ result = "Err"
    /\ gpuLog = <<"create_texture", "create_bind_group", "write_texture", "configure",
                  "write_buffer(vertex_buffer)", "get_current_texture">>
    /\ texture.some /\ bind_group.some
    /\ ~framebuffer_changed /\ ~surface_changed /\ ~vertices_changed

(***************************************************************************)
(* C17: on a framebuffer with width * height = 0, set_pixel(x, y, color)    *)
(* does not panic for any (x, y), and leaves the buffer empty and its width *)
(* and height unchanged.                                                    *)
(***************************************************************************)
C17_EmptyNoOp ==
    [][\A x, y \in Coords : \A pixel \in Colors :
          (/\ framebuffer.width * framebuffer.height = 0
           /\ SetPixelStep(x, y, pixel))
          => /\ ~panicked'
             /\ Len(framebuffer'.pixels) = 0
             /\ framebuffer'.width = framebuffer.width
             /\ framebuffer'.height = framebuffer.height]_vars

(***************************************************************************)
(* C18: neither unwrap of the render path fails: whatever calls came        *)
(* before, no render panics, the texture being present when upload_texture  *)
(* reads it and the bind group when the render pass binds it.               *)
(***************************************************************************)
C18_UnwrapsSucceed ==
    [][RenderStep => /\ ~panicked'
                     /\ InLog(gpuLog', "write_texture") => texture'.some
                     /\ InLog(gpuLog', "draw_indexed(0..6)") => bind_group'.some]_vars

\* a render that took both unwraps on a texture and bind group it had to create
\* again: the framebuffer was resized after an earlier render
C18_Witness ==
    /\ lastCall = "render"
    /\ ~panicked
    /\ surface.configured
    /\ gpuLog = <<"create_texture", "create_bind_group", "write_texture",
                  "write_buffer(vertex_buffer)", "get_current_texture",
                  "draw_indexed(0..6)", "submit", "present">>
    /\ texture.width = 1
    /\ texture.height = MaxFbDim
    /\ bind_group.some

====
